---- MODULE Spec2Model ----
(***************************************************************************)
(* A model of CommunicationHandler (src/communication_handler.py) and of   *)
(* SearchResults.google_search (src/gs.py): the relay between a user       *)
(* websocket and a realtime conversation session.                          *)
(*                                                                         *)
(* Scheduling.  The handler runs on one asyncio event loop: the code       *)
(* between two suspensions of a coroutine is one atomic step.  A send      *)
(* (rt_client.send, ws.send_json, websocket.send_text) hands its message   *)
(* to the transport when it is called and may suspend only afterwards, so  *)
(* an action ends right after its last send.  google_search and            *)
(* SmsClient.send are synchronous calls: while one is running the event    *)
(* loop runs nothing else (loopPc = "searching" / "sms").                  *)
(***************************************************************************)
EXTENDS Naturals, Sequences, FiniteSets, TLC

VARIABLES
    startPc,     \* position of start_conversation_async
    rtWs,        \* self.rt_client.ws: "none" | "open" | "broken" | "closed"
    userWs,      \* self.active_websocket.client_state
    loopPc,      \* position of the receive_messages_async task
    sessOut,     \* messages written into the session stream, in order
    userOut,     \* frames written to the user websocket, in order
    cur,         \* the event the receive loop took last, and how it went
    nEvents,     \* events taken so far
    handed,      \* chunks handed to send_audio_async while the stream was open
    oldLoops     \* receive tasks of earlier start_conversation_async calls
                 \* that still await recv() on the stream they were started on

vars == <<startPc, rtWs, userWs, loopPc, sessOut, userOut,
          cur, nEvents, handed, oldLoops>>

----------------------------------------------------------------------------
(* Bounds of the model *)

MaxEvents == 2
MaxAudio == 2
MaxOldLoops == 1

----------------------------------------------------------------------------
(* Values *)

CallIds == {"call_1", "call_2"}
\* The k-th audio chunk the session stream takes.  The code never looks into
\* a chunk, so the chunks are told apart by their place in the user's audio.
Chunk(k) == <<"pcm16", k>>
Deltas == {"delta_a", "delta_b"}
SmsUrls == {"https://x/y"}
Queries == {"capital of france", ""}

\* uuid.uuid4() of line 142; no service call id equals it
conversation_call_id == "conv_uuid"

\* A Python value a search can yield: a str, or (never from gs.py) a dict
\* with the key "url".
StrVal(s) == [kind |-> "str", val |-> s]
DictVal(s) == [kind |-> "dict", val |-> s]

\* The raw text of message.arguments: wf says whether it is JSON; keys are
\* the members of the JSON object.
NoArgs == [wf |-> FALSE, keys |-> {}, query |-> "", url |-> ""]
EmptyObject == [wf |-> TRUE, keys |-> {}, query |-> "", url |-> ""]

\* The payloads tried with each function name: text that is not JSON, an
\* object without the declared parameter, and objects with it.
ArgPayloads(name) ==
    {NoArgs, EmptyObject}
    \cup (IF name = "get_result"
          THEN { [wf |-> TRUE, keys |-> {"query"}, query |-> q, url |-> ""] : q \in Queries }
          ELSE {})
    \cup (IF name = "send_result"
          THEN { [wf |-> TRUE, keys |-> {"url"}, query |-> "", url |-> u] : u \in SmsUrls }
          ELSE {})

\* The cases of `match message.type` that only print (lines 176-185, 192-207)
PrintOnlyTypes ==
    { "session.created", "error", "input_audio_buffer.cleared",
      "input_audio_buffer.speech_stopped",
      "conversation.item.input_audio_transcription.completed",
      "conversation.item.input_audio_transcription.failed",
      "response.done", "response.audio_transcript.done" }

FunctionNames == {"get_result", "send_result", "transfer_to_agent"}

Event(t, n, a, c, d) ==
    [type |-> t, name |-> n, arguments |-> a, call_id |-> c, delta |-> d]

NoEvent == Event("", "", NoArgs, "", "")

\* The server messages rt_client.recv() can return
Events ==
    { Event(t, "", NoArgs, "", "") : t \in PrintOnlyTypes \cup {"rate_limits.updated"} }
    \cup { Event("input_audio_buffer.speech_started", "", NoArgs, "", "") }
    \cup { Event("response.audio.delta", "", NoArgs, "", d) : d \in Deltas }
    \cup { Event("function_call", "", NoArgs, c, "") : c \in CallIds }
    \cup UNION { { Event("response.function_call_arguments.done", n, a, c, "") :
                     a \in ArgPayloads(n), c \in CallIds } : n \in FunctionNames }

----------------------------------------------------------------------------
(* Messages *)

SessMsg(t, item, out, c, audio, instr) ==
    [type |-> t, item |-> item, output |-> out, call_id |-> c,
     audio |-> audio, instructions |-> instr]

\* Texts are sequences of pieces; an f-string is the concatenation of its
\* literal pieces and its values.
NoResultText == <<"I couldn't find a result for you.">>
ErrorText == <<"Sorry, I encountered an error while searching for the topic.">>
LinkText(url) == <<"Here is a link for you: ", url>>
AnnounceInstructions(url_response) ==
    <<"Respond to the user that you found named ">> \o url_response
        \o <<". Be concise and friendly.">>

SessionUpdateMessage == SessMsg("session.update", "", <<>>, "", <<>>, <<>>)
InitialConversationItem ==
    SessMsg("conversation.item.create", "message", <<>>, conversation_call_id, <<>>, <<>>)
ResponseCreateMessage == SessMsg("response.create", "", <<>>, "", <<>>, <<>>)
ResponseCreateWith(instr) == SessMsg("response.create", "", <<>>, "", <<>>, instr)
\* (mutant) the output is tagged with the call id of the conversation
FunctionCallOutputOfConversation(text, c) ==
    SessMsg("conversation.item.create", "function_call_output", text,
            conversation_call_id, <<>>, <<>>)

\* lines 235-244, 251-260, 274-283 (call_id is assigned from the event at
\* line 221, after any assignment of the function_call case)
FunctionCallOutput(text, c) ==
    SessMsg("conversation.item.create", "function_call_output", text, c, <<>>, <<>>)
InputAudioBufferAppendMessage(audio) ==
    SessMsg("input_audio_buffer.append", "", <<>>, "", audio, <<>>)
AudioSent(out) ==
    Cardinality({i \in 1..Len(out) : out[i].type = "input_audio_buffer.append"})

\* The messages of a stream that are not audio appends: what
\* start_conversation_async and the receive loop have written
IsAudioAppend(m) == m.type = "input_audio_buffer.append"
NotAudioAppend(m) == ~IsAudioAppend(m)
NonAudio(out) == SelectSeq(out, NotAudioAppend)

AudioDataFrame(d) == [Kind |-> "AudioData", Data |-> d]
StopAudioFrame == [Kind |-> "StopAudio", Data |-> ""]

----------------------------------------------------------------------------
(* Pure functions *)

NumResults == 5

\* json.loads(message.arguments), line 219
json_loads(arguments) ==
    IF arguments.wf
    THEN [raised |-> FALSE, keys |-> arguments.keys,
          query |-> arguments.query, url |-> arguments.url]
    ELSE [raised |-> TRUE, keys |-> {}, query |-> "", url |-> ""]

\* What googlesearch.search(query, num_results) does when it is called: it
\* raises, or yields the strings of urls.
UrlLists ==
    { <<>>, <<"">>,
      <<"https://example.com/a", "https://example.com/b">> }
ProviderOutcomes ==
    { [raises |-> TRUE, urls |-> <<>>] }
    \cup { [raises |-> FALSE, urls |-> l] : l \in UrlLists }

\* SearchResults.google_search, src/gs.py
google_search(query, num_results, provider) ==
    IF query = "" THEN [raised |-> TRUE, exc |-> "ValueError", value |-> <<>>]
    ELSE IF num_results < 1 THEN [raised |-> TRUE, exc |-> "ValueError", value |-> <<>>]
    ELSE IF provider.raises THEN [raised |-> TRUE, exc |-> "Exception", value |-> <<>>]
    ELSE [raised |-> FALSE, exc |-> "",
          value |-> [i \in 1..Len(provider.urls) |-> StrVal(provider.urls[i])]]

\* Python truth of a search result: `not first_result_response`, line 234
Falsy(v) == v.kind = "str" /\ v.val = ""

\* (mutant) the branch of the falsy first result does not `continue`: it
\* goes on to line 247, where the subscript raises
get_result_try_no_continue(sr, call_id, cap) ==
    IF sr.raised THEN [sends |-> <<>>, exc |-> TRUE]
    ELSE IF Len(sr.value) = 0 THEN [sends |-> <<>>, exc |-> TRUE]
    ELSE IF Falsy(sr.value[1]) /\ cap > 0
    THEN [sends |-> <<FunctionCallOutput(NoResultText, call_id)>>, exc |-> TRUE]
    ELSE [sends |-> <<>>, exc |-> TRUE]

\* The body of the try of lines 228-271 after google_search has returned sr,
\* on a stream that accepts cap more sends before it raises.  exc: an
\* exception left the try body.
get_result_try(sr, call_id, cap) ==
    IF sr.raised THEN [sends |-> <<>>, exc |-> TRUE]
    ELSE IF Len(sr.value) = 0 THEN [sends |-> <<>>, exc |-> TRUE]   \* IndexError, line 233
    ELSE LET first_result_response == sr.value[1] IN
      IF Falsy(first_result_response)
      THEN IF cap > 0
           THEN [sends |-> <<FunctionCallOutput(NoResultText, call_id)>>, exc |-> FALSE]
           ELSE [sends |-> <<>>, exc |-> TRUE]
      ELSE IF first_result_response.kind # "dict"
      THEN [sends |-> <<>>, exc |-> TRUE]     \* TypeError: str["url"], line 247
      ELSE LET url_response == LinkText(first_result_response.val) IN
        IF cap = 0 THEN [sends |-> <<>>, exc |-> TRUE]
        ELSE IF cap = 1
        THEN [sends |-> <<FunctionCallOutput(url_response, call_id)>>, exc |-> TRUE]
        ELSE [sends |-> <<FunctionCallOutput(url_response, call_id),
                          ResponseCreateWith(AnnounceInstructions(url_response))>>,
              exc |-> FALSE]

\* (mutant) the except branch logs and re-raises, as send_sms does
get_result_handler_reraise(sr, call_id, cap) ==
    LET t == get_result_try(sr, call_id, cap) IN
    [sends |-> t.sends, raised |-> t.exc]

\* Lines 228-283: the try and its except.  raised: the send of the except
\* branch raised, which leaves the handler.
get_result_handler(sr, call_id, cap) ==
    LET t == get_result_try(sr, call_id, cap) IN
    IF ~t.exc THEN [sends |-> t.sends, raised |-> FALSE]
    ELSE IF cap > Len(t.sends)
    THEN [sends |-> t.sends \o <<FunctionCallOutput(ErrorText, call_id)>>,
          raised |-> FALSE]
    ELSE [sends |-> t.sends, raised |-> TRUE]

\* SmsClient.send reports per recipient, or raises; send_sms logs the
\* report and re-raises (lines 336-353)
SmsOutcomes == {"successful", "failed", "raise"}
send_sms(message, outcome) == [raised |-> outcome = "raise"]

\* (mutant) the message is sent without the check of client_state
send_message_async_unchecked(message, taken) ==
    IF taken THEN [sent |-> <<message>>, raised |-> FALSE]
    ELSE [sent |-> <<>>, raised |-> TRUE]

\* send_message_async, lines 159-165.  taken: whether send_text, when it
\* is called, takes the message (it raises when the transport is lost).
send_message_async(message, taken) ==
    IF userWs = "CONNECTED"
    THEN IF taken THEN [sent |-> <<message>>, raised |-> FALSE]
         ELSE [sent |-> <<>>, raised |-> TRUE]
    ELSE [sent |-> <<>>, raised |-> FALSE]

\* (mutant) the frame is sent without the check of client_state
stop_audio_async_unchecked(taken) ==
    IF taken THEN [sent |-> <<StopAudioFrame>>, raised |-> FALSE]
    ELSE [sent |-> <<>>, raised |-> TRUE]

\* stop_audio_async, lines 325-334: logs and re-raises
stop_audio_async(taken) == send_message_async(StopAudioFrame, taken)

\* (mutant) receive_audio lets the exception of the send through
receive_audio_reraise(data_payload, taken) ==
    send_message_async(AudioDataFrame(data_payload), taken)

\* receive_audio, lines 303-316: prints the exception and returns
receive_audio(data_payload, taken) ==
    [sent |-> send_message_async(AudioDataFrame(data_payload), taken).sent,
     raised |-> FALSE]

----------------------------------------------------------------------------
(* State *)

NoRes == [kind |-> "none", urls |-> <<>>]

\* cur: ev, the event taken; afterStart, whether the event taken before it
\* was a speech_started; res, what the tool provider did; accepted,
\* whether the session stream stayed open while the handler ran; userConn,
\* whether the user websocket was CONNECTED when the event was taken;
\* userTook, whether the user websocket took the frame it was sent; exc,
\* the exception that left the handler; sessBase, how many messages other
\* than audio appends sessOut held when the event was taken, and userBase,
\* the length of userOut then.
Taken(e) ==
    [ev |-> e, afterStart |-> cur.ev.type = "input_audio_buffer.speech_started",
     res |-> NoRes, accepted |-> TRUE, userConn |-> userWs = "CONNECTED",
     userTook |-> TRUE, exc |-> "", sessBase |-> Len(NonAudio(sessOut)),
     userBase |-> Len(userOut)]

\* No event taken yet
NoneTaken ==
    [ev |-> NoEvent, afterStart |-> FALSE, res |-> NoRes, accepted |-> TRUE, userConn |-> TRUE,
     userTook |-> TRUE, exc |-> "", sessBase |-> 0, userBase |-> 0]

Init ==
    /\ startPc = "idle"
    /\ rtWs = "none"
    /\ userWs = "CONNECTED"
    /\ loopPc = "none"
    /\ sessOut = <<>>
    /\ userOut = <<>>
    /\ cur = NoneTaken
    /\ nEvents = 0
    /\ handed = 0
    /\ oldLoops = 0

\* The event loop is free to run another coroutine or callback
LoopFree == loopPc \notin {"searching", "sms"}

----------------------------------------------------------------------------
(* start_conversation_async, lines 81-157 *)

\* line 82: the client is created, connect() is awaited
StartCall ==
    /\ startPc = "idle"
    /\ startPc' = "connecting"
    /\ UNCHANGED <<rtWs, userWs, loopPc, sessOut, userOut, cur,
                   nEvents, handed, oldLoops>>

\* (mutant) the coroutine suspends between connect() and the send of the
\* configuration message, which is then never first
ConnectOkSuspends ==
    /\ startPc = "connecting"
    /\ rtWs' = "open"
    /\ startPc' = "cfg_sent"
    /\ UNCHANGED <<userWs, loopPc, sessOut, userOut, cur, nEvents, handed, oldLoops>>

\* lines 88-139: connect() returns and the configuration message is sent
ConnectOk ==
    /\ startPc = "connecting"
    /\ rtWs' = "open"
    /\ sessOut' = Append(sessOut, SessionUpdateMessage)
    /\ startPc' = "cfg_sent"
    /\ UNCHANGED <<userWs, loopPc, userOut, cur, nEvents, handed, oldLoops>>

\* lines 89-91: connect() raises, and so does start_conversation_async
ConnectFail ==
    /\ startPc = "connecting"
    /\ startPc' = "connect_failed"
    /\ UNCHANGED <<rtWs, userWs, loopPc, sessOut, userOut, cur,
                   nEvents, handed, oldLoops>>

\* (mutant) the greeting item is not sent
StartSkipGreeting ==
    /\ startPc = "cfg_sent"
    /\ LoopFree
    /\ startPc' = IF rtWs = "open" THEN "greeting_sent" ELSE "raised"
    /\ UNCHANGED <<rtWs, userWs, loopPc, sessOut, userOut, cur, nEvents, handed, oldLoops>>

\* lines 141-152: the greeting item
StartSendGreeting ==
    /\ startPc = "cfg_sent"
    /\ LoopFree
    /\ IF rtWs = "open"
       THEN /\ sessOut' = Append(sessOut, InitialConversationItem)
            /\ startPc' = "greeting_sent"
       ELSE /\ startPc' = "raised"
            /\ UNCHANGED sessOut
    /\ UNCHANGED <<rtWs, userWs, loopPc, userOut, cur,
                   nEvents, handed, oldLoops>>

\* line 154
StartSendResponse ==
    /\ startPc = "greeting_sent"
    /\ LoopFree
    /\ IF rtWs = "open"
       THEN /\ sessOut' = Append(sessOut, ResponseCreateMessage)
            /\ startPc' = "response_sent"
       ELSE /\ startPc' = "raised"
            /\ UNCHANGED sessOut
    /\ UNCHANGED <<rtWs, userWs, loopPc, userOut, cur,
                   nEvents, handed, oldLoops>>

\* lines 156-157: asyncio.create_task(self.receive_messages_async())
StartSpawn ==
    /\ startPc = "response_sent"
    /\ LoopFree
    /\ startPc' = "done"
    /\ loopPc' = "recv"
    /\ UNCHANGED <<rtWs, userWs, sessOut, userOut, cur,
                   nEvents, handed, oldLoops>>

----------------------------------------------------------------------------
(* send_audio_async, lines 318-323 *)

\* (mutant) chunks that come before the start sequence has finished are
\* discarded
send_audio_async_configured_only(audio_data) ==
    /\ LoopFree
    /\ handed < MaxAudio
    /\ IF rtWs = "open"
       THEN /\ sessOut' = IF startPc = "done"
                          THEN Append(sessOut, InputAudioBufferAppendMessage(audio_data))
                          ELSE sessOut
            /\ handed' = handed + 1
       ELSE UNCHANGED <<sessOut, handed>>
    /\ UNCHANGED <<startPc, rtWs, userWs, loopPc, userOut, cur,
                   nEvents, oldLoops>>

\* lines 318-323.  With no client, no websocket or a lost one the call raises
\* to its caller and nothing is sent.
send_audio_async(audio_data) ==
    /\ LoopFree
    /\ handed < MaxAudio
    /\ IF rtWs = "open"
       THEN /\ sessOut' = Append(sessOut, InputAudioBufferAppendMessage(audio_data))
            /\ handed' = handed + 1
       ELSE UNCHANGED <<sessOut, handed>>
    /\ UNCHANGED <<startPc, rtWs, userWs, loopPc, userOut, cur,
                   nEvents, oldLoops>>

----------------------------------------------------------------------------
(* receive_messages_async, lines 167-301 *)

\* An exception reaches the except of line 298, which logs and re-raises it:
\* the task ends.
LoopRaises(e, exc) ==
    /\ loopPc' = "raised"
    /\ cur' = [Taken(e) EXCEPT !.exc = exc, !.userTook = exc # "TransportError"]

\* (mutant) an "error" message of the service ends the loop
HandlePrintOnlyErrorFatal(e) ==
    /\ IF e.type = "error"
       THEN LoopRaises(e, "ServiceError")
       ELSE loopPc' = "recv" /\ cur' = Taken(e)
    /\ UNCHANGED <<rtWs, sessOut, userOut>>

\* lines 176-185, 192-207, 211-215, 296-297: print, or nothing
HandlePrintOnly(e) ==
    /\ loopPc' = "recv"
    /\ cur' = Taken(e)
    /\ UNCHANGED <<rtWs, sessOut, userOut>>

\* (mutant) a turn gate: no StopAudio frame for a speech_started event that
\* follows another one
HandleSpeechStartedGated(e, taken) ==
    LET r == IF cur.ev.type = "input_audio_buffer.speech_started"
             THEN [sent |-> <<>>, raised |-> FALSE]
             ELSE stop_audio_async(taken) IN
    /\ userOut' = userOut \o r.sent
    /\ IF r.raised
       THEN LoopRaises(e, "TransportError")
       ELSE loopPc' = "recv" /\ cur' = Taken(e)
    /\ UNCHANGED <<rtWs, sessOut>>

\* lines 186-191
HandleSpeechStarted(e, taken) ==
    LET r == stop_audio_async(taken) IN
    /\ userOut' = userOut \o r.sent
    /\ IF r.raised
       THEN LoopRaises(e, "TransportError")
       ELSE loopPc' = "recv" /\ cur' = Taken(e)
    /\ UNCHANGED <<rtWs, sessOut>>

\* (mutant) a turn gate: the deltas that follow a speech_started event are
\* not forwarded
HandleAudioDeltaGated(e, taken) ==
    LET r == IF cur.ev.type = "input_audio_buffer.speech_started"
             THEN [sent |-> <<>>, raised |-> FALSE]
             ELSE receive_audio(e.delta, taken) IN
    /\ userOut' = userOut \o r.sent
    /\ loopPc' = "recv"
    /\ cur' = [Taken(e) EXCEPT !.userTook = taken \/ userWs # "CONNECTED"]
    /\ UNCHANGED <<rtWs, sessOut>>

\* lines 208-210
HandleAudioDelta(e, taken) ==
    LET r == receive_audio(e.delta, taken) IN
    /\ userOut' = userOut \o r.sent
    /\ IF r.raised
       THEN LoopRaises(e, "TransportError")
       ELSE /\ loopPc' = "recv"
            /\ cur' = [Taken(e) EXCEPT !.userTook = taken \/ userWs # "CONNECTED"]
    /\ UNCHANGED <<rtWs, sessOut>>

\* lines 225-233: args["query"], then the call of google_search.  Without
\* the key the KeyError is caught at line 272 (the stream is open here).
HandleGetResult(e, args) ==
    IF "query" \in args.keys
    THEN /\ loopPc' = "searching"
         /\ cur' = Taken(e)
         /\ UNCHANGED <<rtWs, sessOut, userOut>>
    ELSE LET h == get_result_handler(
                    [raised |-> TRUE, exc |-> "KeyError", value |-> <<>>], e.call_id, 2) IN
         /\ sessOut' = sessOut \o h.sends
         /\ loopPc' = "recv"
         /\ cur' = [Taken(e) EXCEPT !.res = [kind |-> "KeyError", urls |-> <<>>]]
         /\ UNCHANGED <<rtWs, userOut>>

\* lines 284-286: args["url"], then the call of send_sms
HandleSendResult(e, args) ==
    /\ IF "url" \in args.keys
       THEN loopPc' = "sms" /\ cur' = Taken(e)
       ELSE LoopRaises(e, "KeyError")
    /\ UNCHANGED <<rtWs, sessOut, userOut>>

\* lines 216-295
HandleArgumentsDone(e) ==
    LET args == json_loads(e.arguments) IN
    IF args.raised
    THEN LoopRaises(e, "JSONDecodeError") /\ UNCHANGED <<rtWs, sessOut, userOut>>
    ELSE IF e.name = "get_result" THEN HandleGetResult(e, args)
    ELSE IF e.name = "send_result" THEN HandleSendResult(e, args)
    ELSE HandlePrintOnly(e)

\* lines 169-175: recv() returns a server message and the match dispatches it
Receive(e, taken) ==
    /\ loopPc = "recv"
    /\ rtWs = "open"
    /\ nEvents < MaxEvents
    /\ nEvents' = nEvents + 1
    /\ \/ e.type = "input_audio_buffer.speech_started" /\ HandleSpeechStarted(e, taken)
       \/ e.type = "response.audio.delta" /\ HandleAudioDelta(e, taken)
       \/ e.type = "response.function_call_arguments.done" /\ HandleArgumentsDone(e)
       \/ /\ e.type \notin {"input_audio_buffer.speech_started", "response.audio.delta",
                            "response.function_call_arguments.done"}
          /\ HandlePrintOnly(e)
    /\ UNCHANGED <<startPc, userWs, handed, oldLoops>>

\* lines 230-283: google_search returns or raises, and the handler finishes.
\* cap: how many sends the stream takes before it is lost (2: it stays open
\* while the handler runs).
SearchReturn(provider, cap) ==
    /\ loopPc = "searching"
    /\ cap > 0 <=> rtWs = "open"
    /\ LET sr == google_search(cur.ev.arguments.query, NumResults, provider)
           h == get_result_handler(sr, cur.ev.call_id, cap)
       IN /\ sessOut' = sessOut \o h.sends
          /\ loopPc' = IF h.raised THEN "raised" ELSE "recv"
          /\ rtWs' = IF cap = 1 THEN "broken" ELSE rtWs
          /\ cur' = [cur EXCEPT
                       !.res = IF sr.raised THEN [kind |-> sr.exc, urls |-> <<>>]
                               ELSE [kind |-> "list", urls |-> provider.urls],
                       !.accepted = (cap = 2),
                       !.exc = IF h.raised THEN "StreamError" ELSE ""]
    /\ UNCHANGED <<startPc, userWs, userOut, nEvents, handed, oldLoops>>

\* (mutant) send_result confirms into the session, as get_result does
SmsReturnConfirms(outcome) ==
    /\ loopPc = "sms"
    /\ LET r == send_sms(cur.ev.arguments.url, outcome) IN
       /\ loopPc' = IF r.raised THEN "raised" ELSE "recv"
       /\ cur' = [cur EXCEPT !.res = [kind |-> outcome, urls |-> <<>>],
                             !.exc = IF r.raised THEN "SmsError" ELSE ""]
       /\ sessOut' = IF rtWs = "open" /\ ~r.raised
                     THEN Append(sessOut, FunctionCallOutput(<<"The link was sent.">>,
                                                             cur.ev.call_id))
                     ELSE sessOut
    /\ UNCHANGED <<startPc, rtWs, userWs, userOut, nEvents, handed, oldLoops>>

\* lines 286, 336-353: SmsClient.send returns its report or raises
SmsReturn(outcome) ==
    /\ loopPc = "sms"
    /\ LET r == send_sms(cur.ev.arguments.url, outcome) IN
       /\ loopPc' = IF r.raised THEN "raised" ELSE "recv"
       /\ cur' = [cur EXCEPT !.res = [kind |-> outcome, urls |-> <<>>],
                             !.exc = IF r.raised THEN "SmsError" ELSE ""]
    /\ UNCHANGED <<startPc, rtWs, userWs, sessOut, userOut,
                   nEvents, handed, oldLoops>>

\* lines 169-173: the stream is lost or closed; recv() returns None and the
\* while condition ends the loop
ReceiveClosed ==
    /\ loopPc = "recv"
    /\ rtWs \in {"broken", "closed"}
    /\ rtWs' = "closed"
    /\ loopPc' = "stopped"
    /\ UNCHANGED <<startPc, userWs, sessOut, userOut, cur,
                   nEvents, handed, oldLoops>>

\* lines 298-301: the task is cancelled while it awaits recv()
Cancel ==
    /\ loopPc = "recv"
    /\ loopPc' = "cancelled"
    /\ UNCHANGED <<startPc, rtWs, userWs, sessOut, userOut, cur,
                   nEvents, handed, oldLoops>>

----------------------------------------------------------------------------
(* The environment *)

\* The session stream is lost: sends raise from now on
StreamBreak ==
    /\ rtWs = "open"
    /\ rtWs' = "broken"
    /\ UNCHANGED <<startPc, userWs, loopPc, sessOut, userOut, cur,
                   nEvents, handed, oldLoops>>

\* The user websocket receives its disconnect message
UserDisconnect ==
    /\ LoopFree
    /\ userWs = "CONNECTED"
    /\ userWs' = "DISCONNECTED"
    /\ UNCHANGED <<startPc, rtWs, loopPc, sessOut, userOut, cur,
                   nEvents, handed, oldLoops>>

----------------------------------------------------------------------------

Next ==
    \/ StartCall
    \/ ConnectOk
    \/ ConnectFail
    \/ StartSendGreeting
    \/ StartSendResponse
    \/ StartSpawn
    \/ send_audio_async(Chunk(handed + 1))
    \/ \E e \in Events, taken \in BOOLEAN : Receive(e, taken)
    \/ \E provider \in ProviderOutcomes, cap \in 0..2 : SearchReturn(provider, cap)
    \/ \E outcome \in SmsOutcomes : SmsReturn(outcome)
    \/ ReceiveClosed
    \/ Cancel
    \/ StreamBreak
    \/ UserDisconnect

Spec == Init /\ [][Next]_vars

----------------------------------------------------------------------------
(* start_conversation_async called again on the same handler *)

\* lines 81-82: nothing keeps a second call from running.  self.rt_client
\* is replaced by a new client, whose websocket is not set yet and whose
\* stream is empty; the receive task of the earlier call is not cancelled:
\* it awaits recv() here, and goes on awaiting it on the earlier stream.
\* The new client has no receive task and no event taken yet.
Restart ==
    /\ startPc = "done"
    /\ loopPc = "recv"
    /\ oldLoops < MaxOldLoops
    /\ startPc' = "connecting"
    /\ rtWs' = "none"
    /\ sessOut' = <<>>
    /\ handed' = 0
    /\ oldLoops' = oldLoops + 1
    /\ loopPc' = "none"
    /\ cur' = NoneTaken
    /\ UNCHANGED <<userWs, userOut, nEvents>>

\* lines 169-173: the earlier stream is closed by the service and recv()
\* returns None to a task of an earlier call, which goes back to line 169
\* and reads self.rt_client, the new client.  With no websocket there, or
\* with a closed one, or with the new task already in recv() (one reader
\* is let in at a time), the task ends; with a websocket that no task
\* reads yet it goes on as the receive loop of the new client.
OldLoopReturns ==
    /\ oldLoops > 0
    /\ LoopFree
    /\ oldLoops' = oldLoops - 1
    /\ loopPc' = IF rtWs \in {"open", "broken"} /\ loopPc = "none" THEN "recv" ELSE loopPc
    /\ UNCHANGED <<startPc, rtWs, userWs, sessOut, userOut, cur, nEvents, handed>>

NextRestart ==
    \/ Next
    \/ Restart
    \/ OldLoopReturns

SpecRestart == Init /\ [][NextRestart]_vars

\* The steps the event loop takes by itself: a coroutine that can run is
\* run, and a connect, a search or an SMS call that was started returns or
\* raises.  That the service sends an event, that audio comes in, that a
\* connection is lost or that the task is cancelled is not promised.
Progress ==
    \/ ConnectOk
    \/ ConnectFail
    \/ StartSendGreeting
    \/ StartSendResponse
    \/ StartSpawn
    \/ \E provider \in ProviderOutcomes, cap \in 0..2 : SearchReturn(provider, cap)
    \/ \E outcome \in SmsOutcomes : SmsReturn(outcome)
    \/ ReceiveClosed

FairSpec == Spec /\ WF_vars(Progress)

----------------------------------------------------------------------------
(* What the handler of the event taken last has done *)

Since(out, base) == SubSeq(out, base + 1, Len(out))

\* The handler of cur.ev has returned or raised
Handled == cur.ev # NoEvent /\ LoopFree

\* What the receive loop has sent into the session since it took cur.ev
\* (send_audio_async, the other flow, sends the audio appends)
HandlerSends == Since(NonAudio(sessOut), cur.sessBase)

\* What the receive loop has sent to the user since it took cur.ev
HandlerFrames == Since(userOut, cur.userBase)

IsCall(name, c) ==
    /\ cur.ev.type = "response.function_call_arguments.done"
    /\ cur.ev.name = name
    /\ cur.ev.call_id = c

IsSpeechStarted == cur.ev.type = "input_audio_buffer.speech_started"

Contains(text, piece) == \E i \in 1..Len(text) : text[i] = piece

----------------------------------------------------------------------------
(* Claims *)

\* C1: a get_result event with call id c for which the search returns a
\* non-empty list of urls sends exactly one function-call-output for c with
\* the text "Here is a link for you: " and the first url, followed by
\* exactly one response.create whose instructions contain that url.
C1_LinkThenResponse ==
    \A c \in CallIds :
      ( /\ Handled
        /\ IsCall("get_result", c)
        /\ cur.res.kind = "list"
        /\ Len(cur.res.urls) > 0
        /\ cur.res.urls[1] # ""
        /\ cur.accepted )
      => /\ Len(HandlerSends) = 2
         /\ HandlerSends[1] = FunctionCallOutput(LinkText(cur.res.urls[1]), c)
         /\ HandlerSends[2].type = "response.create"
         /\ Contains(HandlerSends[2].instructions, cur.res.urls[1])

\* C2: a get_result event with call id c for which the search returns the
\* empty list sends the function-call-output "I couldn't find a result for
\* you." for c, and no response.create.
C2_EmptyListNoResult ==
    \A c \in CallIds :
      ( /\ Handled
        /\ IsCall("get_result", c)
        /\ cur.res.kind = "list"
        /\ cur.res.urls = <<>>
        /\ cur.accepted )
      => HandlerSends = <<FunctionCallOutput(NoResultText, c)>>

\* C3: when the search raises while a get_result event with call id c is
\* handled, the handler sends exactly one function-call-output for c, with
\* the fixed apology text, and no response.create, and the receive loop is
\* not ended by it.  (When the session stream is lost while the handler runs,
\* it sends that output or nothing.)
C3_SearchErrorApology ==
    \A c \in CallIds :
      ( /\ Handled
        /\ IsCall("get_result", c)
        /\ cur.res.kind \in {"Exception", "ValueError"} )
      => /\ cur.accepted => /\ HandlerSends = <<FunctionCallOutput(ErrorText, c)>>
                             /\ loopPc # "raised"
         /\ HandlerSends \in {<<>>, <<FunctionCallOutput(ErrorText, c)>>}

C3_Witness ==
    /\ loopPc = "recv"
    /\ IsCall("get_result", "call_2")
    /\ cur.res.kind = "Exception"
    /\ cur.accepted
    /\ HandlerSends = <<FunctionCallOutput(ErrorText, "call_2")>>

\* C4: handling a send_result event sends nothing into the session stream,
\* whatever the SMS provider does (success, failure for the recipient, or
\* an exception) and whatever the arguments are.
C4_SendResultSilent ==
    ( /\ cur.ev.type = "response.function_call_arguments.done"
      /\ cur.ev.name = "send_result" )
    => HandlerSends = <<>>

C4_Witness ==
    /\ loopPc = "recv"
    /\ IsCall("send_result", "call_1")
    /\ cur.res.kind = "failed"
    /\ sessOut = <<SessionUpdateMessage, InitialConversationItem, ResponseCreateMessage,
                   InputAudioBufferAppendMessage(Chunk(1))>>

\* C5: an SMS provider failure while a send_result event is handled does
\* not end the receive loop.
C5_SmsFailureLoopSurvives ==
    ( /\ Handled
      /\ cur.ev.type = "response.function_call_arguments.done"
      /\ cur.ev.name = "send_result"
      /\ cur.res.kind = "raise" )
    => loopPc # "raised"

\* C6: an exception raised while one event is handled does not end the
\* receive loop; the loop ends only for a lost connection (or by
\* cancellation or a closed stream).
C6_HandlerErrorLoopSurvives ==
    loopPc = "raised" => cur.exc \in {"StreamError", "TransportError"}

\* C7, as claimed: every speech_started event that is handled (without the
\* user websocket raising) has sent exactly one StopAudio frame.
C7_AlwaysOneStopFrame ==
    (Handled /\ IsSpeechStarted /\ cur.userTook)
    => HandlerFrames = <<StopAudioFrame>>

\* C7, amended: a speech_started event handled while the user websocket is
\* CONNECTED and takes the frame has sent exactly one StopAudio frame by the
\* time the loop takes its next event; handled while the websocket is not
\* CONNECTED it sends no frame and the loop goes on; when the websocket
\* raises, no frame is sent and the receive loop ends.
C7_StopFrameWhileConnected ==
    (Handled /\ IsSpeechStarted)
    => /\ (cur.userConn /\ cur.userTook)
            => HandlerFrames = <<StopAudioFrame>> /\ loopPc # "raised"
       /\ ~cur.userConn => HandlerFrames = <<>> /\ loopPc # "raised"
       /\ ~cur.userTook => HandlerFrames = <<>> /\ loopPc = "raised"

C7_Witness ==
    /\ loopPc = "recv"
    /\ IsSpeechStarted
    /\ cur.userConn
    /\ HandlerFrames = <<StopAudioFrame>>
    /\ nEvents = 2

\* C8, as claimed: a speech_started event taken right after another
\* speech_started event sends no StopAudio frame.
C8_NoSecondStopFrame ==
    (Handled /\ IsSpeechStarted /\ cur.afterStart /\ cur.userTook)
    => HandlerFrames = <<>>

\* C8, amended: StopAudio is sent once per speech_started event, not once
\* per turn: of two speech_started events handled one right after the other
\* while the user websocket is CONNECTED and takes the frames, each sends
\* exactly one StopAudio frame.
C8_OneStopFramePerEvent ==
    (Handled /\ IsSpeechStarted /\ cur.afterStart /\ cur.userConn /\ cur.userTook)
    => /\ HandlerFrames = <<StopAudioFrame>>
       /\ cur.userBase >= 1
       /\ userOut[cur.userBase] = StopAudioFrame

C8_Witness ==
    /\ loopPc = "recv"
    /\ IsSpeechStarted
    /\ cur.afterStart
    /\ userOut = <<StopAudioFrame, StopAudioFrame>>

\* C9: the configuration message is the first message sent into the session
\* stream and is sent exactly once, also when send_audio_async is called
\* while start_conversation_async is running.
C9_ConfigFirstOnce ==
    sessOut # <<>>
    => /\ sessOut[1] = SessionUpdateMessage
       /\ Cardinality({i \in 1..Len(sessOut) : sessOut[i].type = "session.update"}) = 1

C9_Witness ==
    /\ startPc = "cfg_sent"
    /\ sessOut = <<SessionUpdateMessage, InputAudioBufferAppendMessage(Chunk(1))>>

\* C10: after connect, start_conversation_async sends the configuration
\* message, the greeting item and a response.create, in this order and once
\* each, and spawns the receive loop only after them; no event has been
\* received before the response.create.  When connect fails nothing is sent
\* and no loop is spawned.
StartMessages == <<SessionUpdateMessage, InitialConversationItem, ResponseCreateMessage>>
Occurrences(out, m) == Cardinality({i \in 1..Len(out) : out[i] = m})
StartSent ==
    CASE startPc \in {"idle", "connecting", "connect_failed"} -> {0}
      [] startPc = "cfg_sent" -> {1}
      [] startPc = "greeting_sent" -> {2}
      [] startPc = "raised" -> {1, 2}
      [] OTHER -> {3}

C10_StartSequence ==
    /\ loopPc = "none" =>
         /\ \E k \in StartSent : NonAudio(sessOut) = SubSeq(StartMessages, 1, k)
         /\ nEvents = 0
    /\ loopPc # "none" =>
         /\ startPc = "done"
         /\ SubSeq(NonAudio(sessOut), 1, 3) = StartMessages
         /\ \A i \in 1..3 : Occurrences(sessOut, StartMessages[i]) = 1
    /\ startPc = "connect_failed" => sessOut = <<>> /\ loopPc = "none"
    /\ startPc = "raised" => loopPc = "none"

C10_Witness ==
    /\ startPc = "done"
    /\ loopPc = "recv"
    /\ sessOut = StartMessages
    /\ nEvents = 0

----------------------------------------------------------------------------
\* C11: taking an event of a kind the match does not name, or of a kind
\* whose case only prints (session.created, error,
\* input_audio_buffer.cleared, speech_stopped, transcription completed and
\* failed, response.done, response.audio_transcript.done), raises nothing
\* and leaves the loop at recv(): nothing is written to the user websocket
\* or into the session stream, and nothing else of the handler changes.
DiagnosticTypes == PrintOnlyTypes \cup {"rate_limits.updated"}

C11_DiagnosticsNoEffect ==
    [][ (nEvents' = nEvents + 1 /\ cur'.ev.type \in DiagnosticTypes)
        => /\ loopPc' = "recv"
           /\ cur'.exc = ""
           /\ UNCHANGED <<startPc, rtWs, userWs, sessOut, userOut, handed>> ]_vars

C11_Witness ==
    /\ cur.ev.type = "error"
    /\ cur.afterStart
    /\ nEvents = 2
    /\ loopPc = "recv"
    /\ HandlerSends = <<>>
    /\ HandlerFrames = <<>>

----------------------------------------------------------------------------
IsAudioDelta == cur.ev.type = "response.audio.delta"

\* C12, as claimed: every response.audio.delta event that is handled has
\* sent exactly one AudioData frame with the payload of the event.
C12_EveryDeltaForwarded ==
    (Handled /\ IsAudioDelta)
    => HandlerFrames = <<AudioDataFrame(cur.ev.delta)>>

\* C12, amended: a response.audio.delta event handled while the user
\* websocket is CONNECTED and takes the frame has sent exactly one AudioData
\* frame with the payload of the event, after the frames of the earlier
\* events, whether or not a speech_started event came before it; handled
\* while the websocket is not CONNECTED, or when the websocket raises, it
\* sends no frame.  In each case the loop goes on.
C12_DeltaForwardedWhileConnected ==
    (Handled /\ IsAudioDelta)
    => /\ (cur.userConn /\ cur.userTook)
            => HandlerFrames = <<AudioDataFrame(cur.ev.delta)>>
       /\ (~cur.userConn \/ ~cur.userTook) => HandlerFrames = <<>>
       /\ loopPc # "raised"
       /\ cur.exc = ""

C12_Witness ==
    /\ loopPc = "recv"
    /\ IsAudioDelta
    /\ cur.afterStart
    /\ cur.ev.delta = "delta_b"
    /\ userOut = <<StopAudioFrame, AudioDataFrame("delta_b")>>

----------------------------------------------------------------------------
IsOutput(m) == m.item = "function_call_output"

\* C13: every function-call-output item written into the session stream
\* carries the call id of the function_call_arguments.done event whose
\* handler wrote it: never the id of another call, never the call id of
\* the conversation; this holds when events of distinct call ids follow
\* one another.
C13_OutputCarriesEventCallId ==
    LET written == NonAudio(sessOut) IN
    \A i \in 1..Len(written) :
        IsOutput(written[i])
        => /\ written[i].call_id \in CallIds
           /\ written[i].call_id # conversation_call_id
           /\ i > cur.sessBase
                => /\ cur.ev.type = "response.function_call_arguments.done"
                   /\ written[i].call_id = cur.ev.call_id

C13_Witness ==
    /\ Handled
    /\ IsCall("get_result", "call_2")
    /\ cur.res.kind = "list"
    /\ \E i \in 1..cur.sessBase :
          IsOutput(NonAudio(sessOut)[i]) /\ NonAudio(sessOut)[i].call_id = "call_1"
    /\ \E i \in 1..Len(HandlerSends) :
          IsOutput(HandlerSends[i]) /\ HandlerSends[i].call_id = "call_2"

----------------------------------------------------------------------------
AudioAppends(out) == SelectSeq(out, IsAudioAppend)

\* C14: the chunks handed to send_audio_async while the session stream is
\* open are in the stream as one input_audio_buffer.append message each,
\* with the chunk as its audio, in the order they were handed in: the k-th
\* append carries the k-th chunk, and there are as many appends as chunks.
C14_ChunksForwardedInOrder ==
    LET appends == AudioAppends(sessOut) IN
    /\ Len(appends) = handed
    /\ \A k \in 1..Len(appends) :
          appends[k] = InputAudioBufferAppendMessage(Chunk(k))

C14_Witness ==
    /\ handed = 2
    /\ rtWs = "open"
    /\ sessOut = <<SessionUpdateMessage, InputAudioBufferAppendMessage(Chunk(1)),
                   InitialConversationItem, InputAudioBufferAppendMessage(Chunk(2))>>

----------------------------------------------------------------------------
\* The receive task has been cancelled, or the user websocket has closed
\* while the receive loop runs
TeardownSignal ==
    \/ loopPc = "cancelled"
    \/ userWs = "DISCONNECTED" /\ loopPc \in {"recv", "searching", "sms"}

\* The receive loop has ended without an exception and both connections are
\* closed
Released ==
    /\ loopPc \in {"cancelled", "stopped"}
    /\ rtWs = "closed"
    /\ userWs = "DISCONNECTED"

\* C15: once the receive task is cancelled or the user websocket closes,
\* the receive loop eventually ends without raising, with the session
\* stream and the user websocket both released.
C15_TeardownReleases == TeardownSignal ~> Released

----------------------------------------------------------------------------
\* C16: while the session stream is open, an incoming audio chunk can be
\* forwarded at once, also while the receive loop is in a get_result search
\* or in a send_result SMS call.
C16_AudioNeverBlocked ==
    (rtWs = "open" /\ handed < MaxAudio)
    => ENABLED send_audio_async(Chunk(handed + 1))

----------------------------------------------------------------------------
\* The receive tasks of the handler that have not ended
LiveLoops == oldLoops + (IF loopPc \in {"recv", "searching", "sms"} THEN 1 ELSE 0)

\* C17: at every moment at most one receive loop of the handler runs, for
\* every sequence of calls, start_conversation_async called more than once
\* included.
C17_SingleReceiveLoop == LiveLoops <= 1

----------------------------------------------------------------------------
OutputsFor(out, c) == {i \in 1..Len(out) : IsOutput(out[i]) /\ out[i].call_id = c}

\* C18: the handler of one get_result event writes at most one
\* function-call-output item for the call id of the event, in every
\* execution, those in which a send into the session stream raises
\* included.
C18_AtMostOneOutput ==
    (cur.ev.type = "response.function_call_arguments.done" /\ cur.ev.name = "get_result")
    => Cardinality(OutputsFor(HandlerSends, cur.ev.call_id)) <= 1

C18_Witness ==
    /\ Handled
    /\ IsCall("get_result", "call_1")
    /\ cur.res.kind = "list"
    /\ ~cur.accepted
    /\ rtWs = "broken"
    /\ HandlerSends = <<FunctionCallOutput(NoResultText, "call_1")>>

----------------------------------------------------------------------------
\* C19: when the user websocket raises on the send of the AudioData frame
\* of a response.audio.delta event, receive_audio swallows the exception:
\* no frame is sent and the receive loop goes on; when it raises on the
\* send of the StopAudio frame of a speech_started event, the exception
\* leaves stop_audio_async and ends the receive loop.
C19_FailureSwallowedOrFatal ==
    (cur.ev # NoEvent /\ cur.userConn /\ ~cur.userTook)
    => /\ HandlerFrames = <<>>
       /\ IsAudioDelta => cur.exc = "" /\ loopPc # "raised"
       /\ IsSpeechStarted => cur.exc = "TransportError" /\ loopPc = "raised"

C19_Witness ==
    /\ loopPc = "recv"
    /\ nEvents < MaxEvents
    /\ rtWs = "open"
    /\ IsAudioDelta
    /\ cur.userConn
    /\ ~cur.userTook
    /\ userWs = "CONNECTED"

\* C20: a response.audio.delta or speech_started event taken while the
\* user websocket is not CONNECTED sends no frame and raises nothing, so
\* the receive loop goes on taking events and running tool calls after the
\* user has disconnected; a frame is only ever sent by a handler that found
\* the websocket CONNECTED.
C20_NoFrameUnlessConnected ==
    /\ (cur.ev # NoEvent /\ ~cur.userConn)
         => /\ HandlerFrames = <<>>
            /\ (IsAudioDelta \/ IsSpeechStarted) => cur.exc = "" /\ loopPc # "raised"
    /\ HandlerFrames # <<>> => cur.userConn

C20_Witness ==
    /\ userWs = "DISCONNECTED"
    /\ Handled
    /\ IsCall("get_result", "call_1")
    /\ ~cur.userConn
    /\ cur.afterStart
    /\ loopPc = "recv"
    /\ HandlerSends = <<FunctionCallOutput(ErrorText, "call_1")>>
    /\ userOut = <<>>

====
